---- MODULE Spec2Model ----
(***************************************************************************)
(* Reagent QR Manager: the reagent store, the code generator, the          *)
(* registration draft and the camera capture dialog of                     *)
(* Reagent_Qr_Manager.py, as a state machine.                              *)
(*                                                                         *)
(* Text is modelled as a sequence of one-character strings, so that        *)
(* formatting, prefix matching and parsing are computed, not assumed.      *)
(* The database file is shared by every running instance of the program;   *)
(* Procs are the running instances (each one ReagentManager window).       *)
(***************************************************************************)
EXTENDS Integers, Sequences, FiniteSets, TLC

VARIABLES
    now,              \* index of the current calendar day (datetime.now())
    reagents,         \* table reagents: sequence of rows, in rowid order
    usage_history,    \* table usage_history: sequence of rows, in rowid order
    current_code,     \* ReagentManager.current_code, per instance
    current_qr_bytes, \* ReagentManager.current_qr_bytes, per instance
    msg,              \* title of the last QMessageBox shown, per instance
    table,            \* rows shown in the history table, per instance
    dlgs,             \* the QRCameraDialog objects created so far
    gc_count,         \* generate_code probe: the COUNT(*) the query returned
    gc_code,          \* generate_code probe: the code returned for gc_count
    open_conns        \* connections made by sqlite3.connect and not yet
                      \* closed by conn.close(), per instance

vars == <<now, reagents, usage_history, current_code, current_qr_bytes, msg,
          table, dlgs, gc_count, gc_code, open_conns>>

storeVars == <<reagents, usage_history>>
draftVars == <<current_code, current_qr_bytes>>
probeVars == <<gc_count, gc_code>>

-----------------------------------------------------------------------------
(* Bounds of the model *)

MaxRows == 3        \* reagent rows the model lets the store hold
MaxDays == 2        \* calendar days the clock runs through
MaxUsage == 2       \* usage rows the model lets the store hold
MaxDialogs == 2     \* capture dialogs created in one run
MaxLedgerRows == 1  \* reagent rows registered in the runs of the ledger
MaxCount == 1100    \* largest same-day count given to the code format
MaxLeaks == 2       \* store operations of one instance that raise

Procs == {1, 2}

\* no message box has been shown yet
NoMessage == "NoMessage"

\* Python's None: a value no text equals (text is made of single characters)
None == <<"None">>

-----------------------------------------------------------------------------
(* Text *)

DigitChars == <<"0", "1", "2", "3", "4", "5", "6", "7", "8", "9">>

\* str(n) for n >= 0: the decimal digits, most significant first
RECURSIVE Decimal(_)
Decimal(n) ==
    IF n < 10 THEN <<DigitChars[n + 1]>>
    ELSE Decimal(n \div 10) \o <<DigitChars[(n % 10) + 1]>>

\* the "0w" part of a format spec: pad on the left with zeros up to a
\* MINIMUM width w; longer text is left as it is
RECURSIVE ZeroPad(_, _)
ZeroPad(s, w) == IF Len(s) >= w THEN s ELSE ZeroPad(<<"0">> \o s, w)

\* a format that keeps the field at three digits by dropping the thousands
Format03dWrapping(count) == ZeroPad(Decimal(count % 1000), 3)

\* f"{count:03d}"
Format03d(count) == ZeroPad(Decimal(count), 3)

\* the calendar day with index i
Calendar(i) == [y |-> 2024, m |-> 6, d |-> 14 + i]

\* strftime("%Y%m%d")
strftime(date) ==
    ZeroPad(Decimal(date.y), 4) \o ZeroPad(Decimal(date.m), 2)
        \o ZeroPad(Decimal(date.d), 2)

\* str.startswith
StartsWith(s, prefix) ==
    /\ Len(s) >= Len(prefix)
    /\ SubSeq(s, 1, Len(prefix)) = prefix

\* str.strip(): drop leading and trailing blanks
RECURSIVE LStrip(_)
LStrip(s) == IF s # <<>> /\ Head(s) = " " THEN LStrip(Tail(s)) ELSE s

RECURSIVE RStrip(_)
RStrip(s) ==
    IF s # <<>> /\ s[Len(s)] = " " THEN RStrip(SubSeq(s, 1, Len(s) - 1)) ELSE s

Strip(s) == RStrip(LStrip(s))

-----------------------------------------------------------------------------
(* The store *)

\* items of loc_combo
Locations == <<"reizouko", "reitouko", "jouon-dana">>

\* a count WHERE code = ?: the rows whose code is the date itself
CountEqual(rows, prefix) ==
    Cardinality({i \in 1..Len(rows) : rows[i].code = prefix})

\* SELECT COUNT(*) FROM reagents WHERE code LIKE 'today%'
RECURSIVE CountLike(_, _)
CountLike(rows, prefix) ==
    IF rows = <<>> THEN 0
    ELSE (IF StartsWith(Head(rows).code, prefix) THEN 1 ELSE 0)
         + CountLike(Tail(rows), prefix)

\* the return statement of generate_code
FormatCode(today, count) == today \o <<"-">> \o Format03d(count)

\* a generator that numbers from the count itself, not the count plus one
generate_codeNoIncrement(rows, date) ==
    LET today == strftime(date)
        count == CountLike(rows, today)
    IN  FormatCode(today, count)

\* generate_code()
generate_code(rows, date) ==
    LET today == strftime(date)
        count == CountLike(rows, today) + 1
    IN  FormatCode(today, count)

Codes(rows) == {rows[i].code : i \in 1..Len(rows)}

\* a column declared without UNIQUE: no insert is refused
ViolatesUniqueNever(rows, code) == FALSE

\* code TEXT UNIQUE: the insert raises IntegrityError
ViolatesUnique(rows, code) == code \in Codes(rows)

\* INSERT INTO reagents (name, code, location, qr_image); id AUTOINCREMENT
InsertReagent(rows, name, code, location, qr_image) ==
    Append(rows, [id |-> Len(rows) + 1, name |-> name, code |-> code,
                  location |-> location, qr_image |-> qr_image])

\* a table the database file does not hold yet
NoTable == <<[absent |-> TRUE]>>

\* a database file with no tables: what sqlite3.connect creates
NoTables == [reagents |-> NoTable, usage_history |-> NoTable]

\* a statement that makes the table anew whether or not it is there
CreateTableAnew(tbl) == <<>>

\* CREATE TABLE IF NOT EXISTS
CreateTableIfNotExists(tbl) == IF tbl = NoTable THEN <<>> ELSE tbl

\* init_db(): the two tables of the file afterwards
init_db(db) ==
    [reagents |-> CreateTableIfNotExists(db.reagents),
     usage_history |-> CreateTableIfNotExists(db.usage_history)]

-----------------------------------------------------------------------------
(* Symbol payload *)

\* the marker that begins the payload's code line
Marker == <<"kan", "ri", "ban", "gou">>

\* qr.add_data(f"<marker>:{code}"): the text the stored image carries
QrPayload(code) == Marker \o <<":">> \o code

-----------------------------------------------------------------------------
(* Initial state: after init_db() on a new file and ReagentManager() *)

Init ==
    /\ now = 1
    /\ reagents = init_db(NoTables).reagents
    /\ usage_history = init_db(NoTables).usage_history
    /\ current_code = [p \in Procs |-> None]
    /\ current_qr_bytes = [p \in Procs |-> None]
    /\ msg = [p \in Procs |-> NoMessage]
    /\ table = [p \in Procs |-> <<>>]
    /\ dlgs = <<>>
    /\ gc_count = 0
    /\ gc_code = None
    /\ open_conns = [p \in Procs |-> 0]

-----------------------------------------------------------------------------
(* History listing *)

\* rank of a character in the collation of TEXT comparison
Alphabet == <<" ", "-", "0", "1", "2", "3", "4", "5", "6", "7", "8", "9", ":">>

CharRank(c) == CHOOSE i \in 1..Len(Alphabet) : Alphabet[i] = c

\* a < b as TEXT (byte-wise, a proper prefix sorts first)
RECURSIVE TextLess(_, _)
TextLess(a, b) ==
    IF b = <<>> THEN FALSE
    ELSE IF a = <<>> THEN TRUE
    ELSE IF Head(a) = Head(b) THEN TextLess(Tail(a), Tail(b))
    ELSE CharRank(Head(a)) < CharRank(Head(b))

\* WHERE reagent_code = code
RECURSIVE WhereCode(_, _)
WhereCode(rows, code) ==
    IF rows = <<>> THEN <<>>
    ELSE (IF Head(rows).reagent_code = code THEN <<Head(rows)>> ELSE <<>>)
         \o WhereCode(Tail(rows), code)

\* an ordering that puts the older dates first
RECURSIVE InsertAsc(_, _)
InsertAsc(sorted, r) ==
    IF sorted = <<>> THEN <<r>>
    ELSE IF TextLess(r.used_date, Head(sorted).used_date)
         THEN <<r>> \o sorted
         ELSE <<Head(sorted)>> \o InsertAsc(Tail(sorted), r)

\* put row r into a sequence already ordered by used_date descending,
\* after the rows whose date is not smaller
RECURSIVE InsertDesc(_, _)
InsertDesc(sorted, r) ==
    IF sorted = <<>> THEN <<r>>
    ELSE IF TextLess(Head(sorted).used_date, r.used_date)
         THEN <<r>> \o sorted
         ELSE <<Head(sorted)>> \o InsertDesc(Tail(sorted), r)

\* ORDER BY used_date DESC
RECURSIVE OrderByDateDesc(_)
OrderByDateDesc(rows) ==
    IF rows = <<>> THEN <<>>
    ELSE InsertDesc(OrderByDateDesc(SubSeq(rows, 1, Len(rows) - 1)),
                    rows[Len(rows)])

\* populate_history_table(code): the rows the table is filled with
populate_history_table(rows, code) ==
    IF code # <<>> /\ code # None
    THEN OrderByDateDesc(WhereCode(rows, code))
    ELSE OrderByDateDesc(rows)

\* search_history_by_code(code), as it acts on one instance's window:
\* <<message shown, rows shown>>
search_history_by_code(p, text) ==
    LET code == Strip(text)
    IN  IF code = <<>>
        THEN [msg |-> "InputMissing", table |-> table[p]]
        ELSE [msg |-> msg[p],
              table |-> populate_history_table(usage_history, code)]

-----------------------------------------------------------------------------
(* Modal capture *)

\* an instance is inside dlg.exec(): its main window takes no input
Executing(p) ==
    \E i \in 1..Len(dlgs) : dlgs[i].owner = p /\ dlgs[i].exec = "running"

-----------------------------------------------------------------------------
(* Registration *)

\* what the operator may have typed into name_edit
NameInputs == {<<>>, <<" ">>, <<" ", "A", " ">>}

\* the items of loc_combo the operator selects in the model
LocInputs == {1, 3}

\* generate_qr: the handler of the generate button
GenerateQr(p) ==
    /\ ~Executing(p)
    /\ LET code == generate_code(reagents, Calendar(now))
       IN  /\ current_code' = [current_code EXCEPT ![p] = code]
           /\ current_qr_bytes' =
                  [current_qr_bytes EXCEPT ![p] = QrPayload(code)]
    /\ UNCHANGED <<now, storeVars, msg, table, dlgs, probeVars, open_conns>>

\* a register handler that leaves the draft in place after the insert
SaveReagentKeepsDraft(p, text, loc) ==
    /\ ~Executing(p)
    /\ LET name == Strip(text)
           location == Locations[loc]
       IN  IF name = <<>> \/ current_code[p] = None
           THEN /\ msg' = [msg EXCEPT ![p] = "InputMissing"]
                /\ UNCHANGED reagents
           ELSE IF ViolatesUnique(reagents, current_code[p])
           THEN /\ msg' = [msg EXCEPT ![p] = "Duplicate"]
                /\ UNCHANGED reagents
           ELSE /\ Len(reagents) < MaxRows
                /\ reagents' = InsertReagent(reagents, name, current_code[p],
                                             location, current_qr_bytes[p])
                /\ msg' = [msg EXCEPT ![p] = "Registered"]
    /\ UNCHANGED <<now, usage_history, draftVars, table, dlgs, probeVars,
                   open_conns>>

\* save_reagent: the handler of the register button, with the text of
\* name_edit and the
\* selected item of loc_combo
SaveReagent(p, text, loc) ==
    /\ ~Executing(p)
    /\ LET name == Strip(text)
           location == Locations[loc]
       IN  IF name = <<>> \/ current_code[p] = None
           THEN /\ msg' = [msg EXCEPT ![p] = "InputMissing"]
                /\ UNCHANGED <<reagents, draftVars>>
           ELSE IF ViolatesUnique(reagents, current_code[p])
           THEN /\ msg' = [msg EXCEPT ![p] = "Duplicate"]
                /\ UNCHANGED <<reagents, draftVars>>
           ELSE /\ Len(reagents) < MaxRows
                /\ reagents' = InsertReagent(reagents, name, current_code[p],
                                             location, current_qr_bytes[p])
                /\ msg' = [msg EXCEPT ![p] = "Registered"]
                /\ current_code' = [current_code EXCEPT ![p] = None]
                /\ current_qr_bytes' = [current_qr_bytes EXCEPT ![p] = None]
    /\ UNCHANGED <<now, usage_history, table, dlgs, probeVars, open_conns>>

\* midnight passes: datetime.now() moves to the next day
AdvanceClock ==
    /\ now < MaxDays
    /\ now' = now + 1
    /\ UNCHANGED <<storeVars, draftVars, msg, table, dlgs, probeVars, open_conns>>

-----------------------------------------------------------------------------
(* Usage ledger *)

\* a code no reagent carries
UnknownCode ==
    <<"9", "9", "9", "9", "9", "9", "9", "9", "-", "9", "9", "9">>

UsageCodes == Codes(reagents) \cup {UnknownCode}
Users == {"sato"}
UsedDates == {strftime(Calendar(i)) : i \in 1..MaxDays}

\* a row written to usage_history. The table is declared with
\* reagent_code TEXT and no REFERENCES clause, and the program has no
\* code of its own that looks the reagent up first: the store takes the
\* row whatever its reagent_code is.
InsertUsage(code, user, used_date) ==
    /\ Len(usage_history) < MaxUsage
    /\ usage_history' =
           Append(usage_history,
                  [id |-> Len(usage_history) + 1, reagent_code |-> code,
                   user |-> user, used_date |-> used_date])
    /\ UNCHANGED <<now, reagents, draftVars, msg, table, dlgs, probeVars, open_conns>>

\* what the operator may have typed into search_edit
SearchInputs == {<<" ">>} \cup {<<" ">> \o c \o <<" ">> : c \in UsageCodes}

\* the handler of the search button
SearchHistoryByCode(p, text) ==
    /\ ~Executing(p)
    /\ LET r == search_history_by_code(p, text)
       IN  /\ msg' = [msg EXCEPT ![p] = r.msg]
           /\ table' = [table EXCEPT ![p] = r.table]
    /\ UNCHANGED <<now, storeVars, draftVars, dlgs, probeVars, open_conns>>

\* the program is started again for instance p, on the database file as it
\* is: init_db(), then ReagentManager() with an empty draft and the history
\* table filled by populate_history_table(). The process that ended took
\* its dialogs, timers, captures and database connections with it.
Startup(p) ==
    /\ ~Executing(p)
    /\ LET db == init_db([reagents |-> reagents,
                          usage_history |-> usage_history])
       IN  /\ reagents' = db.reagents
           /\ usage_history' = db.usage_history
           /\ table' = [table EXCEPT
                          ![p] = populate_history_table(db.usage_history, None)]
    /\ current_code' = [current_code EXCEPT ![p] = None]
    /\ current_qr_bytes' = [current_qr_bytes EXCEPT ![p] = None]
    /\ msg' = [msg EXCEPT ![p] = NoMessage]
    /\ dlgs' = [i \in 1..Len(dlgs) |->
                  IF dlgs[i].owner = p
                  THEN [dlgs[i] EXCEPT
                          !.cap = IF @ = "opened" THEN "released" ELSE @,
                          !.timer = FALSE]
                  ELSE dlgs[i]]
    /\ open_conns' = [open_conns EXCEPT ![p] = 0]
    /\ UNCHANGED <<now, probeVars>>

-----------------------------------------------------------------------------
(* Store operations that raise *)

\* The store may refuse a statement with an sqlite3.Error other than
\* IntegrityError (the file is locked by another instance beyond the
\* timeout, or cannot be read). Each operation is connect(), execute(),
\* close(); what is closed when execute() raises is what the code's
\* try/finally covers.

\* generate_qr when the SELECT of generate_code raises: the exception leaves
\* generate_code before conn.close() and generate_qr before current_code is
\* assigned
GenerateQrRaises(p) ==
    /\ ~Executing(p)
    /\ open_conns[p] < MaxLeaks
    /\ open_conns' = [open_conns EXCEPT ![p] = @ + 1]
    /\ UNCHANGED <<now, storeVars, draftVars, msg, table, dlgs, probeVars>>

\* the search button when the SELECT of populate_history_table raises: the
\* exception leaves it before conn.close() and before the table is redrawn
SearchHistoryByCodeRaises(p, text) ==
    /\ ~Executing(p)
    /\ Strip(text) # <<>>
    /\ open_conns[p] < MaxLeaks
    /\ open_conns' = [open_conns EXCEPT ![p] = @ + 1]
    /\ UNCHANGED <<now, storeVars, draftVars, msg, table, dlgs, probeVars>>

-----------------------------------------------------------------------------
(* Capture dialog: QRCameraDialog *)

\* payloads a symbol in front of the camera may carry
CodePayload == QrPayload(generate_code(<<>>, Calendar(1)))
OtherPayload == <<"h", "i">>
Payloads == {CodePayload, OtherPayload, <<>>}

\* what decode(frame) may return: the payloads found, in the order detected
Frames ==
    {<<>>} \cup {<<a>> : a \in Payloads}
           \cup {<<a, b>> : a \in Payloads \ {<<>>}, b \in Payloads \ {<<>>}}

\* the device is held by a dialog whose cap is open
DeviceHeld == \E i \in 1..Len(dlgs) : dlgs[i].cap = "opened"

\* payload.split("\n")
RECURSIVE SplitLines(_)
SplitLines(s) ==
    IF \E k \in 1..Len(s) : s[k] = "\n"
    THEN LET k == CHOOSE j \in 1..Len(s) :
                      s[j] = "\n" /\ \A h \in 1..(j - 1) : s[h] # "\n"
         IN  <<SubSeq(s, 1, k - 1)>> \o SplitLines(SubSeq(s, k + 1, Len(s)))
    ELSE <<s>>

\* line.split(":", 1)[0]: the part before the first colon
BeforeFirstColon(line) ==
    IF \E k \in 1..Len(line) : line[k] = ":"
    THEN LET k == CHOOSE j \in 1..Len(line) :
                      line[j] = ":" /\ \A h \in 1..(j - 1) : line[h] # ":"
         IN  SubSeq(line, 1, k - 1)
    ELSE line

\* line.split(":", 1)[-1]
AfterFirstColon(line) ==
    IF \E k \in 1..Len(line) : line[k] = ":"
    THEN LET k == CHOOSE j \in 1..Len(line) :
                      line[j] = ":" /\ \A h \in 1..(j - 1) : line[h] # ":"
         IN  SubSeq(line, k + 1, Len(line))
    ELSE line

\* the loop over the payload's lines in search_by_qr: the code of the
\* first line that starts with the marker, or None
RECURSIVE FirstCodeLine(_)
FirstCodeLine(lines) ==
    IF lines = <<>> THEN None
    ELSE IF StartsWith(Head(lines), Marker)
         THEN Strip(AfterFirstColon(Head(lines)))
         ELSE FirstCodeLine(Tail(lines))

\* search_by_qr after dlg.exec() has returned `ret`:
\* the message shown and the rows shown to instance p
AfterExec(p, ret, qr_payload) ==
    IF ret = "Accepted" /\ qr_payload # None /\ qr_payload # <<>>
    THEN LET found == FirstCodeLine(SplitLines(qr_payload))
         IN  IF found # None
             THEN search_history_by_code(p, found)
             ELSE [msg |-> "QrRead", table |-> table[p]]
    ELSE [msg |-> msg[p], table |-> table[p]]

\* the last payload of the frame instead of the first
LastPayload(decoded) == decoded[Len(decoded)]

\* decoded[0].data.decode("utf-8")
FirstPayload(decoded) == Head(decoded)

\* a constructor that starts the timer before it tests cap.isOpened()
FailedDialogTimerStarted(p) ==
    [owner |-> p, cap |-> "failed", timer |-> TRUE, qr_payload |-> None,
     result |-> "Rejected", exec |-> "raised", releases |-> 0]

\* the dialog object when __init__ raises RuntimeError: the capture did
\* not open, and neither qr_payload nor the timer has been set up
FailedDialog(p) ==
    [owner |-> p, cap |-> "failed", timer |-> FALSE, qr_payload |-> None,
     result |-> "Rejected", exec |-> "raised", releases |-> 0]

\* the dialog object when __init__ returns: capture open, timer started
OpenedDialog(p) ==
    [owner |-> p, cap |-> "opened", timer |-> TRUE, qr_payload |-> None,
     result |-> "Rejected", exec |-> "running", releases |-> 0]

\* QDialog.accept() / reject(): done(r) sets the result code and hides the
\* dialog; the overridden closeEvent is not called. A running exec()
\* returns r to search_by_qr.
Done(dlg, r) ==
    [dlg EXCEPT !.result = r,
                !.exec = IF dlg.exec = "running" THEN r ELSE dlg.exec]

\* search_by_qr up to dlg.exec(): QRCameraDialog.__init__.
\* opens: whether cv2.VideoCapture(0) got the device
SearchByQr(p, opens) ==
    /\ ~Executing(p)
    /\ Len(dlgs) < MaxDialogs
    /\ opens => ~DeviceHeld
    /\ IF ~opens
       THEN /\ dlgs' = Append(dlgs, FailedDialog(p))
            /\ msg' = [msg EXCEPT ![p] = "CameraError"]
       ELSE /\ dlgs' = Append(dlgs, OpenedDialog(p))
            /\ UNCHANGED msg
    /\ UNCHANGED <<now, storeVars, draftVars, table, probeVars, open_conns>>

\* next_frame, the slot of the dialog's timer; when it accepts a running
\* dialog, exec() returns and search_by_qr runs on to its end.
\* ok, decoded: what cap.read() and decode(frame) return
NextFrame(i, ok, decoded) ==
    /\ i \in 1..Len(dlgs)
    /\ dlgs[i].timer
    /\ IF ~(ok /\ dlgs[i].cap = "opened") \/ decoded = <<>>
       THEN UNCHANGED <<dlgs, msg, table>>
       ELSE LET p == dlgs[i].owner
                payload == FirstPayload(decoded)
                was == dlgs[i].exec
                r == IF was = "running"
                     THEN AfterExec(p, "Accepted", payload)
                     ELSE [msg |-> msg[p], table |-> table[p]]
            IN  /\ dlgs' = [dlgs EXCEPT
                              ![i] = Done([@ EXCEPT !.qr_payload = payload],
                                          "Accepted")]
                /\ msg' = [msg EXCEPT ![p] = r.msg]
                /\ table' = [table EXCEPT ![p] = r.table]
    /\ UNCHANGED <<now, storeVars, draftVars, probeVars, open_conns>>

Keys == {"Escape", "A"}

\* keyPressEvent on the dialog on screen
KeyPressEvent(i, key) ==
    /\ i \in 1..Len(dlgs)
    /\ dlgs[i].exec = "running"
    /\ IF key = "Escape"
       THEN LET p == dlgs[i].owner
                d == Done(dlgs[i], "Rejected")
                r == AfterExec(p, d.exec, d.qr_payload)
            IN  /\ dlgs' = [dlgs EXCEPT ![i] = d]
                /\ msg' = [msg EXCEPT ![p] = r.msg]
                /\ table' = [table EXCEPT ![p] = r.table]
       ELSE UNCHANGED <<dlgs, msg, table>>
    /\ UNCHANGED <<now, storeVars, draftVars, probeVars, open_conns>>

\* closeEvent: the window of the dialog on screen is closed from outside;
\* QDialog.closeEvent then rejects the dialog. releases counts the calls
\* of cap.release()
CloseEvent(i) ==
    /\ i \in 1..Len(dlgs)
    /\ dlgs[i].exec = "running"
    /\ LET p == dlgs[i].owner
           opened == dlgs[i].cap = "opened"
           released == [dlgs[i] EXCEPT
                          !.cap = IF opened THEN "released" ELSE @,
                          !.releases = IF opened THEN @ + 1 ELSE @,
                          !.timer = FALSE]
           d == Done(released, "Rejected")
           r == AfterExec(p, d.exec, d.qr_payload)
       IN  /\ dlgs' = [dlgs EXCEPT ![i] = d]
           /\ msg' = [msg EXCEPT ![p] = r.msg]
           /\ table' = [table EXCEPT ![p] = r.table]
    /\ UNCHANGED <<now, storeVars, draftVars, probeVars, open_conns>>

-----------------------------------------------------------------------------
(* Code format probe: generate_code's return value as a function of the
   count its query returned *)

ProbeFormat ==
    /\ gc_code = None
    /\ gc_code' = FormatCode(strftime(Calendar(now)), gc_count + 1)
    /\ UNCHANGED <<now, storeVars, draftVars, msg, table, dlgs, gc_count, open_conns>>

ProbeClock ==
    /\ gc_code = None
    /\ now < MaxDays
    /\ now' = now + 1
    /\ UNCHANGED <<storeVars, draftVars, msg, table, dlgs, probeVars, open_conns>>

InitProbe ==
    /\ now = 1
    /\ reagents = <<>>
    /\ usage_history = <<>>
    /\ current_code = [p \in Procs |-> None]
    /\ current_qr_bytes = [p \in Procs |-> None]
    /\ msg = [p \in Procs |-> NoMessage]
    /\ table = [p \in Procs |-> <<>>]
    /\ dlgs = <<>>
    /\ gc_count \in 0..MaxCount
    /\ gc_code = None
    /\ open_conns = [p \in Procs |-> 0]

\* a database file that earlier runs have filled: one reagent registered on
\* the first day, one usage row of its code and one of a code no reagent
\* carries
FiledReagents ==
    LET code == generate_code(<<>>, Calendar(1))
    IN  InsertReagent(<<>>, <<"A">>, code, Locations[1], QrPayload(code))

FiledUsage ==
    <<[id |-> 1, reagent_code |-> generate_code(<<>>, Calendar(1)),
       user |-> "sato", used_date |-> strftime(Calendar(1))],
      [id |-> 2, reagent_code |-> UnknownCode,
       user |-> "sato", used_date |-> strftime(Calendar(2))]>>

\* the program started on that file: init_db() keeps the tables, the draft
\* is empty and the history table lists the ledger
InitAudit ==
    /\ now = 1
    /\ reagents = init_db([reagents |-> FiledReagents,
                           usage_history |-> FiledUsage]).reagents
    /\ usage_history = init_db([reagents |-> FiledReagents,
                                usage_history |-> FiledUsage]).usage_history
    /\ current_code = [p \in Procs |-> None]
    /\ current_qr_bytes = [p \in Procs |-> None]
    /\ msg = [p \in Procs |-> NoMessage]
    /\ table = [p \in Procs |-> populate_history_table(FiledUsage, None)]
    /\ dlgs = <<>>
    /\ gc_count = 0
    /\ gc_code = None
    /\ open_conns = [p \in Procs |-> 0]

-----------------------------------------------------------------------------
(* Specifications *)

NextStore ==
    \/ \E p \in Procs : GenerateQr(p)
    \/ \E p \in Procs, text \in NameInputs, loc \in LocInputs :
           SaveReagent(p, text, loc)
    \/ AdvanceClock

\* one instance registers a few reagents; usage rows are written and looked up
NextLedger ==
    \/ GenerateQr(1)
    \/ Len(reagents) < MaxLedgerRows /\ SaveReagent(1, <<"A">>, 1)
    \/ \E code \in UsageCodes, user \in Users, used_date \in UsedDates :
           InsertUsage(code, user, used_date)
    \/ \E text \in SearchInputs : SearchHistoryByCode(1, text)
    \/ Startup(1)

NextCam ==
    \/ \E p \in Procs, opens \in BOOLEAN : SearchByQr(p, opens)
    \/ \E i \in 1..Len(dlgs), ok \in BOOLEAN, decoded \in Frames :
           NextFrame(i, ok, decoded)
    \/ \E i \in 1..Len(dlgs), key \in Keys : KeyPressEvent(i, key)
    \/ \E i \in 1..Len(dlgs) : CloseEvent(i)

NextProbe == ProbeFormat \/ ProbeClock

\* the register tab of both instances within one day
NextDraft ==
    \/ \E p \in Procs : GenerateQr(p)
    \/ \E p \in Procs, text \in NameInputs, loc \in LocInputs :
           SaveReagent(p, text, loc)

\* every handler of one instance: both tabs and the capture dialog
NextAudit ==
    \/ GenerateQr(1)
    \/ \E text \in NameInputs : SaveReagent(1, text, 1)
    \/ \E text \in SearchInputs : SearchHistoryByCode(1, text)
    \/ Startup(1)
    \/ SearchByQr(1, TRUE)
    \/ \E i \in 1..Len(dlgs), decoded \in Frames : NextFrame(i, TRUE, decoded)
    \/ \E i \in 1..Len(dlgs) : KeyPressEvent(i, "Escape")
    \/ \E i \in 1..Len(dlgs) : CloseEvent(i)

\* one operator at one instance: generate, register, and midnight between
NextSerial ==
    \/ GenerateQr(1)
    \/ \E text \in NameInputs, loc \in LocInputs : SaveReagent(1, text, loc)
    \/ AdvanceClock

NextConn ==
    \/ NextLedger
    \/ GenerateQrRaises(1)
    \/ \E text \in SearchInputs : SearchHistoryByCodeRaises(1, text)

Next == NextStore \/ NextLedger \/ NextCam

\* the whole program
Spec == Init /\ [][Next]_vars

\* registration
SpecStore == Init /\ [][NextStore]_vars

\* registration, the ledger and typed lookup
SpecLedger == Init /\ [][NextLedger]_vars

\* capture dialogs
SpecCam == Init /\ [][NextCam]_vars

\* the code format over a wide range of counts
SpecProbe == InitProbe /\ [][NextProbe]_vars

\* serialized registration: the only writer of the store is instance 1
SpecSerial == Init /\ [][NextSerial]_vars

\* registration by two instances, the clock standing
SpecDraft == Init /\ [][NextDraft]_vars

\* one instance at work on a database file that holds rows
SpecAudit == InitAudit /\ [][NextAudit]_vars

\* the ledger with store operations that may raise
SpecConn == Init /\ [][NextConn]_vars

-----------------------------------------------------------------------------
(* Reading text back, for stating the properties *)

DigitValue(c) == CHOOSE d \in 0..9 : DigitChars[d + 1] = c

IsDigits(s) == \A k \in 1..Len(s) : \E d \in 0..9 : DigitChars[d + 1] = s[k]

\* the number a run of decimal digits denotes
RECURSIVE ParseNat(_)
ParseNat(s) ==
    IF s = <<>> THEN 0
    ELSE 10 * ParseNat(SubSeq(s, 1, Len(s) - 1)) + DigitValue(s[Len(s)])

\* the code is dated `date`: its first eight characters read year, month, day
DatedOn(code, date) ==
    /\ Len(code) >= 8
    /\ IsDigits(SubSeq(code, 1, 8))
    /\ ParseNat(SubSeq(code, 1, 4)) = date.y
    /\ ParseNat(SubSeq(code, 5, 6)) = date.m
    /\ ParseNat(SubSeq(code, 7, 8)) = date.d

\* the rows of the store that carry the code
RowsWith(rows, code) == {i \in 1..Len(rows) : rows[i].code = code}

\* the rows of the store dated `date`
RowsDated(rows, date) == {i \in 1..Len(rows) : DatedOn(rows[i].code, date)}

\* a registration by instance p that reaches the INSERT
Registers(p) ==
    \E text \in NameInputs, loc \in LocInputs :
        Strip(text) # <<>> /\ current_code[p] # None /\ SaveReagent(p, text, loc)

-----------------------------------------------------------------------------
(* Properties *)

NoTwoRowsShareACode ==
    \A i, j \in 1..Len(reagents) :
        reagents[i].code = reagents[j].code => i = j

\* C1: no two reagent rows ever share a code, and a registration whose code
\* is already in the store reports "Duplicate" and writes no row.
C1_Uniqueness ==
    /\ []NoTwoRowsShareACode
    /\ [][\A p \in Procs :
            (Registers(p) /\ current_code[p] \in Codes(reagents))
                => /\ msg'[p] = "Duplicate"
                   /\ reagents' = reagents
                   /\ Cardinality(RowsWith(reagents', current_code[p])) = 1]_vars

C1_Witness ==
    \E p \in Procs :
        /\ msg[p] = "Duplicate"
        /\ current_code[p] # None
        /\ Cardinality(RowsWith(reagents, current_code[p])) = 1

\* C2: with N rows dated today, generate_qr leaves the pending code
\* "<today>-<N+1>", eight date digits, a hyphen and N+1 written with three
\* digits, and it writes nothing to the store.
C2_NextCode ==
    [][\A p \in Procs :
          GenerateQr(p) =>
              LET D == Calendar(now)
                  N == Cardinality(RowsDated(reagents, D))
                  c == current_code'[p]
              IN  /\ Len(c) = 12
                  /\ DatedOn(c, D)
                  /\ c[9] = "-"
                  /\ IsDigits(SubSeq(c, 10, 12))
                  /\ ParseNat(SubSeq(c, 10, 12)) = N + 1
                  /\ reagents' = reagents
                  /\ usage_history' = usage_history]_vars

\* a pending code numbered 2 on the second day, beside a row of the first day
C2_Witness ==
    \E p \in Procs :
        /\ now = 2
        /\ current_code[p] # None
        /\ DatedOn(current_code[p], Calendar(2))
        /\ ParseNat(SubSeq(current_code[p], 10, 12)) = 2
        /\ RowsDated(reagents, Calendar(1)) # {}
        /\ Cardinality(RowsDated(reagents, Calendar(2))) = 1

\* C7: every usage row's reagent_code is the code of a reagent row (rows are
\* never deleted, so this is the same as: was there when the row was written).
C7_ReferentialIntegrity ==
    \A i \in 1..Len(usage_history) :
        usage_history[i].reagent_code \in Codes(reagents)

\* an insert by instance q that writes a row
InsertSucceeds(q) ==
    \E text \in NameInputs, loc \in LocInputs :
        SaveReagent(q, text, loc) /\ reagents' # reagents

\* C8: when two instances hold the same pending code and one of them
\* registers, the store holds exactly one row with that code afterwards:
\* either this insert was the first and succeeded, or it was refused with
\* "Duplicate" and wrote nothing. An instance whose pending code has been
\* registered by the other meanwhile cannot insert it: the store holds one
\* row with that code and refuses the second.
C8_RaceSafetyNet ==
    /\ [](\A q \in Procs :
             (current_code[q] # None /\ current_code[q] \in Codes(reagents))
                 => /\ Cardinality(RowsWith(reagents, current_code[q])) = 1
                    /\ ~ENABLED InsertSucceeds(q))
    /\ [][\A p, q \in Procs :
            (p # q /\ current_code[p] = current_code[q] /\ Registers(p)) =>
                LET c == current_code[p]
                IN  /\ Cardinality(RowsWith(reagents', c)) = 1
                    /\ current_code'[q] = c
                    /\ \/ /\ msg'[p] = "Registered"
                          /\ RowsWith(reagents, c) = {}
                          /\ Len(reagents') = Len(reagents) + 1
                       \/ /\ msg'[p] = "Duplicate"
                          /\ reagents' = reagents]_vars

\* one instance registered the code, the other was refused with the same code
C8_Witness ==
    \E p, q \in Procs :
        /\ p # q
        /\ msg[p] = "Registered"
        /\ current_code[p] = None
        /\ msg[q] = "Duplicate"
        /\ current_code[q] # None
        /\ Cardinality(RowsWith(reagents, current_code[q])) = 1

\* C9: for a same-day count of 999 or more the code's sequence field is
\* widened: it reads count + 1, and no smaller count of that day gives the
\* same code.
C9_NoWrap ==
    (gc_code # None /\ gc_count >= 999) =>
        LET today == strftime(Calendar(now))
        IN  /\ IsDigits(SubSeq(gc_code, 10, Len(gc_code)))
            /\ ParseNat(SubSeq(gc_code, 10, Len(gc_code))) = gc_count + 1
            /\ \A n \in 0..(gc_count - 1) :
                   FormatCode(today, n + 1) # gc_code

C9_Witness == gc_code # None /\ gc_count = 1000 /\ Len(gc_code) = 13

\* the session of dialog i, in the terms of the capture state machine
Capturing(i) == dlgs[i].exec = "running"
Detected(i) == dlgs[i].exec = "Accepted"
Cancelled(i) == dlgs[i].exec = "Rejected"
DeviceError(i) == dlgs[i].exec = "raised"
Terminated(i) == Detected(i) \/ Cancelled(i)

\* C3: a capturing session has no result; a tick that reads no frame or
\* decodes no payload leaves it capturing with no result, and a tick that
\* decodes at least one payload makes it Detected with the frame's first
\* payload as its result.
C3_FirstMatchWins ==
    /\ [](\A i \in 1..Len(dlgs) : Capturing(i) => dlgs[i].qr_payload = None)
    /\ [][\A i \in 1..Len(dlgs), ok \in BOOLEAN, decoded \in Frames :
            (Capturing(i) /\ NextFrame(i, ok, decoded)) =>
                IF ~ok \/ decoded = <<>>
                THEN Capturing(i)' /\ dlgs'[i].qr_payload = None
                ELSE Detected(i)' /\ dlgs'[i].qr_payload = decoded[1]]_vars

\* a session detected from a frame whose first payload is the plain text
C3_Witness ==
    \E i \in 1..Len(dlgs) :
        Detected(i) /\ dlgs[i].qr_payload = OtherPayload

\* C4: a session that has ended (accepted, cancelled or closed) has its
\* frame timer stopped.
C4_CadenceStopped ==
    \A i \in 1..Len(dlgs) : Terminated(i) => ~dlgs[i].timer

\* C5: a session that has ended no longer holds the camera device.
C5_DeviceReleased ==
    \A i \in 1..Len(dlgs) : Terminated(i) => dlgs[i].cap # "opened"

\* C6: a Detected session has a payload and a Cancelled session has none.
C6_ResultContract ==
    \A i \in 1..Len(dlgs) :
        /\ Detected(i) => dlgs[i].qr_payload # None
        /\ Cancelled(i) => dlgs[i].qr_payload = None

\* C10: a session whose device did not open holds no device, has no
\* running timer and no result, and no frame tick is possible for it; the
\* failed start shows the camera-error message and starts no dialog.
C10_DeviceError ==
    /\ [](\A i \in 1..Len(dlgs) :
             DeviceError(i) =>
                 /\ dlgs[i].cap = "failed"
                 /\ ~dlgs[i].timer
                 /\ dlgs[i].qr_payload = None
                 /\ \A ok \in BOOLEAN, decoded \in Frames :
                        ~ENABLED NextFrame(i, ok, decoded))
    /\ [][\A p \in Procs :
            SearchByQr(p, FALSE) =>
                /\ msg'[p] = "CameraError"
                /\ Len(dlgs') = Len(dlgs) + 1
                /\ dlgs'[Len(dlgs')].exec = "raised"
                /\ ~Executing(p)'
                /\ \A i \in 1..Len(dlgs) : dlgs'[i] = dlgs[i]]_vars

\* the device failed to open although no other dialog holds it
C10_Witness ==
    \E i \in 1..Len(dlgs) :
        /\ DeviceError(i)
        /\ msg[dlgs[i].owner] = "CameraError"
        /\ ~DeviceHeld

-----------------------------------------------------------------------------
(* Listing and start-up *)

\* the calendar day a used_date denotes, as a number yyyymmdd
DateNumber(used_date) == ParseNat(used_date)

\* the listing runs from the latest used_date to the earliest
NewestFirst(listing) ==
    \A k \in 1..(Len(listing) - 1) :
        DateNumber(listing[k].used_date) >= DateNumber(listing[k + 1].used_date)

\* the listing holds each of the given rows once and nothing else
ListsExactly(listing, rows) ==
    /\ {listing[k] : k \in 1..Len(listing)} = rows
    /\ Len(listing) = Cardinality(rows)

UsageRows == {usage_history[k] : k \in 1..Len(usage_history)}

\* C11: a typed lookup of a code lists exactly the usage rows of that code,
\* the unfiltered listing at start-up lists the whole ledger, both run from
\* the latest used_date to the earliest, and neither changes the ledger.
C11_ListUsage ==
    [][\A p \in Procs :
          /\ \A c \in UsageCodes :
                 SearchHistoryByCode(p, <<" ">> \o c \o <<" ">>) =>
                     /\ ListsExactly(table'[p],
                                     {r \in UsageRows : r.reagent_code = c})
                     /\ NewestFirst(table'[p])
                     /\ usage_history' = usage_history
          /\ Startup(p) =>
                 /\ ListsExactly(table'[p], UsageRows)
                 /\ NewestFirst(table'[p])
                 /\ usage_history' = usage_history]_vars

\* a listing of two rows in which the row written later, with the later
\* date, comes first
C11_Witness ==
    \E p \in Procs :
        /\ Len(table[p]) = 2
        /\ table[p][1].id = 2
        /\ table[p][2].id = 1
        /\ DateNumber(table[p][1].used_date) > DateNumber(table[p][2].used_date)

\* C12: init_db on a file that has the tables leaves both tables and all
\* their rows as they are, at every start-up; init_db twice on a new file
\* gives what init_db once gives.
C12_InitDbIdempotent ==
    /\ [](LET db == [reagents |-> reagents, usage_history |-> usage_history]
          IN  /\ init_db(db) = db
              /\ init_db(init_db(NoTables)) = init_db(NoTables))
    /\ [][\A p \in Procs :
            Startup(p) => /\ reagents' = reagents
                          /\ usage_history' = usage_history]_vars

\* an instance started again on a file that holds reagent and usage rows
C12_Witness ==
    \E p \in Procs :
        /\ msg[p] = NoMessage
        /\ reagents # <<>>
        /\ usage_history # <<>>
        /\ Len(table[p]) = Len(usage_history)

-----------------------------------------------------------------------------
(* Release of the device *)

\* C13: a session that has ended has had its capture released exactly once.
C13_ReleasedExactlyOnce ==
    \A i \in 1..Len(dlgs) : Terminated(i) => dlgs[i].releases = 1

-----------------------------------------------------------------------------
(* Database connections *)

\* C14: no store operation leaves a connection open once it has returned or
\* raised.
C14_ConnectionScoped == \A p \in Procs : open_conns[p] = 0

-----------------------------------------------------------------------------
(* Serialized registration *)

\* C15: when one instance is the only writer, the code generate_qr leaves
\* pending is not in the store, then and for as long as it is pending, also
\* after midnight has passed, so that no registration ends in the duplicate
\* warning.
C15_SerializedNoDuplicate ==
    /\ [](/\ msg[1] # "Duplicate"
          /\ current_code[1] # None =>
                 ~ViolatesUnique(reagents, current_code[1]))
    /\ [][GenerateQr(1) => current_code'[1] \notin Codes(reagents)]_vars
    /\ [][Registers(1) => msg'[1] = "Registered"]_vars

\* after a registration, a code generated the day before is still pending
\* while the store holds rows of that day
C15_Witness ==
    /\ now = 2
    /\ msg[1] = "Registered"
    /\ current_code[1] # None
    /\ DatedOn(current_code[1], Calendar(1))
    /\ Cardinality(RowsDated(reagents, Calendar(1))) >= 2

-----------------------------------------------------------------------------
(* Payloads without a code line *)

\* C16: when the tick that ends a capturing session takes a payload none of
\* whose lines starts with the marker, the owner is shown the
\* not-a-code-symbol message and its history table and the store stay as
\* they are; when the payload has such a line, the table shows the rows of
\* that line's code.
C16_UnrecognizedSymbol ==
    [][\A i \in 1..Len(dlgs), decoded \in Frames \ {<<>>} :
          Capturing(i) /\ NextFrame(i, TRUE, decoded) =>
              LET p == dlgs[i].owner
                  found == FirstCodeLine(SplitLines(FirstPayload(decoded)))
              IN  IF found = None
                  THEN /\ msg'[p] = "QrRead"
                       /\ table' = table
                       /\ reagents' = reagents
                       /\ usage_history' = usage_history
                  ELSE table'[p] = populate_history_table(usage_history, found)
      ]_vars

-----------------------------------------------------------------------------
(* Rows once written *)

\* the table keeps every row it had, at its place and with every column
KeepsRows(before, after) ==
    /\ Len(after) >= Len(before)
    /\ \A k \in 1..Len(before) : after[k] = before[k]

-----------------------------------------------------------------------------
(* Payload round trip *)

\* C18: the payload generate_qr writes for a code the generator returns has
\* a line that starts with the marker, and the parser of search_by_qr takes
\* from it exactly that code as the key of the lookup.
C18_PayloadRoundTrip ==
    gc_code # None =>
        LET lines == SplitLines(QrPayload(gc_code))
        IN  /\ \E k \in 1..Len(lines) : StartsWith(lines[k], Marker)
            /\ FirstCodeLine(lines) # None
            /\ FirstCodeLine(lines) = gc_code

\* the first code of the second day, written and parsed back
C18_Witness ==
    /\ gc_code # None
    /\ gc_count = 0
    /\ now = 2
    /\ FirstCodeLine(SplitLines(QrPayload(gc_code))) =
           generate_code(<<>>, Calendar(2))

-----------------------------------------------------------------------------
(* Registration draft *)

\* the draft of instance p after the step is the draft before it
DraftKept(p) ==
    /\ current_code'[p] = current_code[p]
    /\ current_qr_bytes'[p] = current_qr_bytes[p]

\* C19: save_reagent inserts only when a code is pending and the trimmed
\* name is not empty, and otherwise leaves store and draft alone; the insert
\* appends one row with the pending code, image and trimmed name and clears
\* the pending code and image, so that a second save without a generate
\* meets no pending code; a duplicate refusal leaves store and draft alone.
\* Code and image are pending together.
C19_DraftLifecycle ==
    /\ [](\A p \in Procs :
             current_code[p] = None <=> current_qr_bytes[p] = None)
    /\ [][\A p \in Procs, text \in NameInputs, loc \in LocInputs :
             SaveReagent(p, text, loc) =>
                 IF Strip(text) = <<>> \/ current_code[p] = None
                 THEN /\ reagents' = reagents
                      /\ DraftKept(p)
                      /\ msg'[p] = "InputMissing"
                 ELSE IF current_code[p] \in Codes(reagents)
                 THEN /\ reagents' = reagents
                      /\ DraftKept(p)
                      /\ msg'[p] = "Duplicate"
                 ELSE /\ Len(reagents') = Len(reagents) + 1
                      /\ SubSeq(reagents', 1, Len(reagents)) = reagents
                      /\ reagents'[Len(reagents')].code = current_code[p]
                      /\ reagents'[Len(reagents')].qr_image = current_qr_bytes[p]
                      /\ reagents'[Len(reagents')].name = Strip(text)
                      /\ current_code'[p] = None
                      /\ current_qr_bytes'[p] = None
                      /\ msg'[p] = "Registered"
         ]_vars

\* one instance has registered and saved again without a generate, while
\* the other was refused for a duplicate and still holds its draft
C19_Witness ==
    \E p, q \in Procs :
        /\ msg[p] = "InputMissing" /\ current_code[p] = None
        /\ msg[q] = "Duplicate" /\ current_code[q] \in Codes(reagents)
        /\ current_qr_bytes[q] = QrPayload(current_code[q])

====
